---- MODULE Spec2Model ----
(***************************************************************************)
(* Model of the create-cloudflare telemetry reporter                       *)
(* (packages/create-cloudflare/src/metrics.ts, createReporter) together    *)
(* with the sparrow delivery client it calls.                              *)
(*                                                                         *)
(* One action is one synchronous run of JavaScript code between two        *)
(* suspension points: the part of collectAsyncMetrics before its await,    *)
(* the settlement of the wrapped promise, the delivery of a process        *)
(* signal to the installed listeners, and the continuation after the       *)
(* await (try-rest / catch / finally).                                     *)
(*                                                                         *)
(* The persisted metrics config (helpers/metrics-config: readMetricsConfig, *)
(* writeMetricsConfig, getDeviceId) and the permission functions on top of *)
(* it (getC3Permission, updateC3Pemission, runTelemetryCommand) are        *)
(* synchronous: one call is one action. The handles in the reporter's      *)
(* events array settle one at a time, and waitForAllEventsSettled is a     *)
(* call followed by the continuation of its await.                         *)
(***************************************************************************)
EXTENDS Integers, Sequences, FiniteSets, TLC

\* ---------------------------------------------------------------- bounds
MaxTime == 1
\* how many properties the operation of one invocation contributes
MaxContrib == 1
\* how many calls of the config functions one behaviour makes
MaxCalls == 2
\* how many direct reporter.sendEvent calls one behaviour makes
MaxSends == 3
\* how many waitForAllEventsSettled calls one behaviour makes
MaxWaits == 2
\* how many setEventProperty calls made outside every operation are followed
MaxThrows == 1

\* ------------------------------------------------------------- universes
Invs == {"a", "b"}
Signals == {"SIGINT", "SIGTERM"}
Prefixes == {"c3 session", "c3 prompt"}
TerminalStages == {"completed", "cancelled", "errored"}
Stages == {"started"} \cup TerminalStages
Values == {"ok"}

\* Property values a caller can supply. args (Partial<C3Args>) is plain data;
\* answer is typed unknown, so it may also be a value JSON.stringify throws
\* on (a circular structure, a BigInt).
Plain == "app"
Other == "other"
Circular == "circular"
UserKeys == {"args", "answer"}

Empty == << >>

\* The values a rejected promise can carry.
OpCancelError == [kind |-> "CancelError", message |-> "test cancel", origin |-> "op"]
OpError == [kind |-> "Error", message |-> "test error", origin |-> "op"]
OpNonError == [kind |-> "nonError", message |-> "a string", origin |-> "op"]
OpErrors == {OpCancelError, OpError, OpNonError}

VARIABLES
    now,                  \* Date.now()
    telemetry,            \* telemetry.enabled captured by createReporter
    hasKey,               \* SPARROW_SOURCE_KEY is a non-empty string
    events,               \* the reporter's events array (delivery handles)
    calls,                \* history: every call of sparrow.sendEvent
    listeners,            \* process listeners, per signal
    pc,                   \* per invocation: idle / awaiting / settled
    opts,                 \* per invocation: the options argument
    startTime,            \* per invocation: const startTime
    additionalProperties, \* per invocation: the stage-scoped property bags
    op,                   \* per invocation: the promise options.promise() returned
    thunkCalls,           \* history: how often options.promise was invoked
    cancelPromise,        \* per invocation: cancelPromise
    race,                 \* per invocation: the Promise.race promise
    result,               \* per invocation: the promise collectAsyncMetrics returned
    setThrows,            \* history: how many setEventProperty calls threw
    file,                 \* the metrics config file
    writable,             \* writeFileSync on the metrics config file succeeds
    uuids,                \* how many ids randomUUID has produced
    log,                  \* history: the calls of the config functions
    fetched,              \* how the fetch promises in events have settled
    waits                 \* the waitForAllEventsSettled calls

\* the state of the reporter and of the process it runs in
reporterVars == <<telemetry, hasKey, events, calls, listeners, pc, opts,
                  startTime, additionalProperties, op, thunkCalls,
                  cancelPromise, race, result>>

\* the state of the config store
storeVars == <<file, writable, uuids, log>>

\* the state of the deliveries in flight
drainVars == <<fetched, waits>>

vars == <<now, reporterVars, setThrows, storeVars, drainVars>>

\* ------------------------------------------------------------ promises
Pending == [st |-> "pending"]
Fulfilled(v) == [st |-> "fulfilled", val |-> v]
Rejected(e) == [st |-> "rejected", val |-> e]
NotCreated == [st |-> "none"]

\* new CancelError(signal): the signal name is the constructor's argument
CancelError(signal) == [kind |-> "CancelError", message |-> signal, origin |-> "signal"]

\* the TypeError JSON.stringify throws inside sparrow.sendEvent
StringifyError == [kind |-> "TypeError", message |-> "cyclic object value", origin |-> "delivery"]

\* error instanceof Error
InstanceOfError(e) == e.kind \in {"Error", "CancelError", "TypeError"}

\* error instanceof CancelError
InstanceOfCancelError(e) == e.kind = "CancelError"

\* ---------------------------------------------------------- properties
\* { ...a, ...b }
Spread(a, b) ==
    [k \in (DOMAIN a) \cup (DOMAIN b) |-> IF k \in DOMAIN b THEN b[k] ELSE a[k]]

Prop(k, v) == [x \in {k} |-> v]

EventName(prefix, stage) == <<prefix, stage>>

\* JSON.stringify(payload) returns instead of throwing
Serializable(properties) ==
    \A k \in (DOMAIN properties) \cap UserKeys : properties[k] # Circular

\* ------------------------------------------------------ delivery client
\* sparrowSendEvent building the request body before the credential check
sparrowSendEventBodyFirst(payload) ==
    IF ~Serializable(payload.properties)
    THEN [threw |-> TRUE, fetched |-> FALSE, handle |-> "undefined"]
    ELSE IF ~hasKey
         THEN [threw |-> FALSE, fetched |-> FALSE, handle |-> "undefined"]
         ELSE [threw |-> FALSE, fetched |-> TRUE, handle |-> "pending"]

\* helpers/sparrow sendEvent(payload): the credential check comes first, then
\* JSON.stringify(payload) (which throws on an unserializable payload), then
\* fetch, whose promise is returned unawaited.
sparrowSendEvent(payload) ==
    IF ~hasKey
    THEN [threw |-> FALSE, fetched |-> FALSE, handle |-> "undefined"]
    ELSE IF ~Serializable(payload.properties)
         THEN [threw |-> TRUE, fetched |-> FALSE, handle |-> "undefined"]
         ELSE [threw |-> FALSE, fetched |-> TRUE, handle |-> "pending"]

\* ------------------------------------------------------------- reporter
\* sessionId, os and c3Version, which sendEvent puts under the caller's properties
AmbientProps == [sessionId |-> "s1", os |-> "os", c3Version |-> "1.0.0"]

\* sendEvent with the started event left out
sendEventNoStarted(h, i, name, properties) ==
    IF ~telemetry \/ name[2] = "started"
    THEN [events |-> h.events, calls |-> h.calls, threw |-> FALSE]
    ELSE LET payload == [event |-> name, deviceId |-> "d1", userId |-> "u1",
                         timestamp |-> now,
                         properties |-> Spread(AmbientProps, properties)]
         IN [events |-> Append(h.events, "pending"),
             calls |-> Append(h.calls, [inv |-> i, payload |-> payload,
                                        threw |-> FALSE, fetched |-> TRUE]),
             threw |-> FALSE]

\* reporter.sendEvent(name, properties), run on the heap h = [events, calls]:
\* the heap after the call, and whether the call threw.
sendEvent(h, i, name, properties) ==
    IF ~telemetry
    THEN [events |-> h.events, calls |-> h.calls, threw |-> FALSE]
    ELSE LET payload == [event |-> name, deviceId |-> "d1", userId |-> "u1",
                         timestamp |-> now,
                         properties |-> Spread(AmbientProps, properties)]
             r == sparrowSendEvent(payload)
         IN [events |-> IF r.threw THEN h.events ELSE Append(h.events, r.handle),
             calls |-> Append(h.calls, [inv |-> i, payload |-> payload,
                                        threw |-> r.threw, fetched |-> r.fetched]),
             threw |-> r.threw]

\* AddlOf that looks the stage up under every prefix
AddlOfAnyPrefix(ap, name) ==
    LET n1 == EventName("c3 session", name[2])
        n2 == EventName("c3 prompt", name[2])
    IN Spread(IF n1 \in DOMAIN ap THEN ap[n1] ELSE Empty,
              IF n2 \in DOMAIN ap THEN ap[n2] ELSE Empty)

\* additionalProperties[eventName], undefined spreading to nothing
AddlOf(ap, name) == IF name \in DOMAIN ap THEN ap[name] ELSE Empty

\* TerminalProps spreading the properties contributed for every stage
TerminalPropsAllStages(o, ap, stage, extra) ==
    LET n1 == EventName(o.eventPrefix, "completed")
        n2 == EventName(o.eventPrefix, "cancelled")
        n3 == EventName(o.eventPrefix, "errored")
    IN Spread(Spread(o.startedProps,
                     Spread(Spread(AddlOf(ap, n1), AddlOf(ap, n2)), AddlOf(ap, n3))),
              extra)

\* { ...options.startedProps, ...additionalProperties[`${prefix} ${stage}`], ...extra }
TerminalProps(o, ap, stage, extra) ==
    Spread(Spread(o.startedProps, AddlOf(ap, EventName(o.eventPrefix, stage))), extra)

\* ErrorProp that reads message off any rejection value
ErrorPropOfAnyValue(e) ==
    [message |-> e.message,
     stack |-> IF InstanceOfError(e) THEN "stack" ELSE "undefined"]

\* ErrorProp without the message
ErrorPropNoMessage(e) ==
    [message |-> "undefined",
     stack |-> IF InstanceOfError(e) THEN "stack" ELSE "undefined"]

\* the error property of the errored event
ErrorProp(e) ==
    [message |-> IF InstanceOfError(e) THEN e.message ELSE "undefined",
     stack |-> IF InstanceOfError(e) THEN "stack" ELSE "undefined"]

\* CatchBlock without the instanceof CancelError branch
CatchBlockNoCancelBranch(h, i, o, st, ap, e) ==
    IF o.disableTelemetry
    THEN [events |-> h.events, calls |-> h.calls, outcome |-> Rejected(e)]
    ELSE LET s == sendEvent(h, i, EventName(o.eventPrefix, "errored"),
                            TerminalProps(o, ap, "errored",
                                          [durationMs |-> now - st,
                                           error |-> ErrorProp(e)]))
         IN [events |-> s.events, calls |-> s.calls,
             outcome |-> IF s.threw THEN Rejected(StringifyError) ELSE Rejected(e)]

\* CatchBlock throwing a new error in place of the caught one
CatchBlockWrapsError(h, i, o, st, ap, e) ==
    LET wrapped == [kind |-> "Error", message |-> e.message, origin |-> "wrapped"]
    IN IF o.disableTelemetry
       THEN [events |-> h.events, calls |-> h.calls, outcome |-> Rejected(wrapped)]
       ELSE LET s == IF InstanceOfCancelError(e)
                     THEN sendEvent(h, i, EventName(o.eventPrefix, "cancelled"),
                                    TerminalProps(o, ap, "cancelled",
                                                  Prop("durationMs", now - st)))
                     ELSE sendEvent(h, i, EventName(o.eventPrefix, "errored"),
                                    TerminalProps(o, ap, "errored",
                                                  [durationMs |-> now - st,
                                                   error |-> ErrorProp(e)]))
            IN [events |-> s.events, calls |-> s.calls,
                outcome |-> IF s.threw THEN Rejected(StringifyError)
                                       ELSE Rejected(wrapped)]

\* The catch block of collectAsyncMetrics for the caught value e: the heap after
\* it and the outcome of the async function (an exception thrown by sendEvent
\* inside the catch block replaces the caught one).
CatchBlock(h, i, o, st, ap, e) ==
    IF o.disableTelemetry
    THEN [events |-> h.events, calls |-> h.calls, outcome |-> Rejected(e)]
    ELSE LET durationMs == now - st
             s == IF InstanceOfCancelError(e)
                  THEN sendEvent(h, i, EventName(o.eventPrefix, "cancelled"),
                                 TerminalProps(o, ap, "cancelled",
                                               Prop("durationMs", durationMs)))
                  ELSE sendEvent(h, i, EventName(o.eventPrefix, "errored"),
                                 TerminalProps(o, ap, "errored",
                                               [durationMs |-> durationMs,
                                                error |-> ErrorProp(e)]))
         IN [events |-> s.events, calls |-> s.calls,
             outcome |-> IF s.threw THEN Rejected(StringifyError) ELSE Rejected(e)]

\* TryRest without the completed event
TryRestNoEvent(h, i, o, st, ap, v) ==
    [events |-> h.events, calls |-> h.calls, outcome |-> Fulfilled(v)]

\* TryRest that sends the completed event whatever disableTelemetry is
TryRestIgnoresDisable(h, i, o, st, ap, v) ==
    LET s == sendEvent(h, i, EventName(o.eventPrefix, "completed"),
                       TerminalProps(o, ap, "completed",
                                     Prop("durationMs", now - st)))
    IN IF s.threw
       THEN CatchBlock(s, i, o, st, ap, StringifyError)
       ELSE [events |-> s.events, calls |-> s.calls, outcome |-> Fulfilled(v)]

\* The rest of the try block once the race fulfilled with v.
TryRest(h, i, o, st, ap, v) ==
    IF o.disableTelemetry
    THEN [events |-> h.events, calls |-> h.calls, outcome |-> Fulfilled(v)]
    ELSE LET s == sendEvent(h, i, EventName(o.eventPrefix, "completed"),
                            TerminalProps(o, ap, "completed",
                                          Prop("durationMs", now - st)))
         IN IF s.threw
            THEN CatchBlock(s, i, o, st, ap, StringifyError)
            ELSE [events |-> s.events, calls |-> s.calls, outcome |-> Fulfilled(v)]

\* ProcessOn that installs no listener
ProcessOnNothing(ls, i) == ls

\* ProcessOn that replaces the listeners already installed
ProcessOnReplacing(ls, i) == [s \in Signals |-> {i}]

\* process.on("SIGINT", cancel).on("SIGTERM", cancel)
ProcessOn(ls, i) == [s \in Signals |-> ls[s] \cup {i}]

\* ProcessOff that leaves the SIGTERM listener
ProcessOffSigintOnly(ls, i) ==
    [s \in Signals |-> IF s = "SIGINT" THEN ls[s] \ {i} ELSE ls[s]]

\* process.off("SIGINT", cancel).off("SIGTERM", cancel)
ProcessOff(ls, i) == [s \in Signals |-> ls[s] \ {i}]

\* ------------------------------------------------------------- inputs
StartedPropsChoices == {Prop("args", Plain)}

Options ==
    [eventPrefix : Prefixes, startedProps : StartedPropsChoices,
     disableTelemetry : BOOLEAN]

\* what calling options.promise does: it returns a promise, or throws
ThunkBehaviours == {"returns", "throws"}

NoOptions == [eventPrefix |-> "none"]

\* the arguments of a setEventProperty call, as the Event type admits them:
\* args on every event, answer on "c3 prompt completed" alone
EventNames == {EventName(p, s) : p \in Prefixes, s \in Stages}
ContribKeys == {"args", "answer"}

TypedContrib(name) ==
    {<<"args", Other>>} \cup
    (IF name = EventName("c3 prompt", "completed")
     THEN {<<"answer", Plain>>, <<"answer", Circular>>}
     ELSE {})

\* additionalProperties after setEventProperty(name, key, value)
SetProp(ap, name, key, value) ==
    [n \in (DOMAIN ap) \cup {name} |->
        IF n = name THEN Spread(AddlOf(ap, name), Prop(key, value)) ELSE ap[n]]

\* what the synchronous part of options.promise contributes
PreContribs ==
    {Empty} \cup UNION {{SetProp(Empty, n, kv[1], kv[2]) : kv \in TypedContrib(n)} :
                          n \in EventNames}

ContribPairs(ap) == {<<n, k>> \in EventNames \X ContribKeys :
                        n \in DOMAIN ap /\ k \in DOMAIN ap[n]}

\* --------------------------------------------------------- config store
\* a key the config does not have
Undefined == [undefined |-> TRUE]

\* randomUUID(): the n-th id it produces
Uuid(n) == [uuid |-> n]

\* new Date() at time t
Date(t) == [ms |-> t]

\* Date.prototype.toISOString, which JSON.stringify applies to a Date
toISOString(d) == [iso |-> d.ms]

\* new Date(value) for an ISO string of the file
NewDate(str) == [ms |-> str.iso]

\* the keys of MetricsConfigFile that hold { enabled, date }
PermissionKeys == {"permission", "c3permission"}

\* {}
EmptyConfig ==
    [permission |-> Undefined, c3permission |-> Undefined, deviceId |-> Undefined]

\* JSON.stringify(config, replacer, "\t"): every date is written as its ISO string
Stringify(config) ==
    [k \in DOMAIN config |->
        IF k \in PermissionKeys /\ config[k] # Undefined
        THEN [enabled |-> config[k].enabled, date |-> toISOString(config[k].date)]
        ELSE config[k]]

\* JSON.parse(text, reviver): the value of every key "date" becomes a Date
Parse(text) ==
    [k \in DOMAIN text |->
        IF k \in PermissionKeys /\ text[k] # Undefined
        THEN [enabled |-> text[k].enabled, date |-> NewDate(text[k].date)]
        ELSE text[k]]

\* the metrics config file: missing, not readable by this process, holding
\* text that is no JSON, or holding the JSON text of a config
Absent == [kind |-> "absent", text |-> EmptyConfig]
Denied == [kind |-> "denied", text |-> EmptyConfig]
Invalid == [kind |-> "invalid", text |-> EmptyConfig]
Json(text) == [kind |-> "json", text |-> text]

\* readMetricsConfig with the try block alone
readMetricsConfigNoCatch(f) ==
    IF f.kind = "json"
    THEN [threw |-> FALSE, value |-> Parse(f.text)]
    ELSE [threw |-> TRUE, value |-> Undefined]

\* readMetricsConfig(): readFileSync throws on a missing or unreadable file,
\* JSON.parse throws on text that is no JSON, and the catch returns {}
readMetricsConfig(f) ==
    LET readFileSync == [threw |-> f.kind \in {"absent", "denied"}]
        parse == [threw |-> f.kind = "invalid"]
    IN IF readFileSync.threw \/ parse.threw
       THEN [threw |-> FALSE, value |-> EmptyConfig]
       ELSE [threw |-> FALSE, value |-> Parse(f.text)]

\* writeMetricsConfig swallowing the error of a failed write
writeMetricsConfigSilent(f, config) ==
    IF writable
    THEN [file |-> Json(Stringify(config)), threw |-> FALSE]
    ELSE [file |-> f, threw |-> FALSE]

\* writeMetricsConfig(config): mkdirSync and writeFileSync, which throw when
\* the path cannot be written
writeMetricsConfig(f, config) ==
    IF writable
    THEN [file |-> Json(Stringify(config)), threw |-> FALSE]
    ELSE [file |-> f, threw |-> TRUE]

\* initializeC3Permission(enabled)
initializeC3Permission(enabled) == [enabled |-> enabled, date |-> Date(now)]

\* A call of a config function on the file f gives the file after it, the
\* configs it passed to writeMetricsConfig, whether it threw, and its value.
Outcome(f, w, t, r) == [file |-> f, writes |-> w, threw |-> t, ret |-> r]


\* getC3Permission that does not persist the record it initialises
getC3PermissionNoWrite(f, config) ==
    IF config.c3permission = Undefined
    THEN Outcome(f, << >>, FALSE, initializeC3Permission(TRUE))
    ELSE Outcome(f, << >>, FALSE, config.c3permission)

\* getC3Permission(config)
getC3Permission(f, config) ==
    IF config.c3permission = Undefined
    THEN LET c == [config EXCEPT !.c3permission = initializeC3Permission(TRUE)]
             w == writeMetricsConfig(f, c)
         IN Outcome(w.file, <<c>>, w.threw,
                    IF w.threw THEN Undefined ELSE c.c3permission)
    ELSE Outcome(f, << >>, FALSE, config.c3permission)

\* updateC3Pemission without the early return
updateC3PemissionAlwaysWrites(f, enabled) ==
    LET r == readMetricsConfig(f)
        config == r.value
        c == [config EXCEPT !.c3permission = initializeC3Permission(enabled)]
        w == writeMetricsConfig(f, c)
    IN IF r.threw THEN Outcome(f, << >>, TRUE, Undefined) ELSE
       Outcome(w.file, <<c>>, w.threw, Undefined)

\* updateC3Pemission that keeps the date of a record it replaces
updateC3PemissionKeepsDate(f, enabled) ==
    LET r == readMetricsConfig(f)
        config == r.value
    IN IF r.threw THEN Outcome(f, << >>, TRUE, Undefined) ELSE
       IF config.c3permission # Undefined /\ config.c3permission.enabled = enabled
       THEN Outcome(f, << >>, FALSE, Undefined)
       ELSE LET c == [config EXCEPT !.c3permission =
                        IF @ = Undefined
                        THEN initializeC3Permission(enabled)
                        ELSE [enabled |-> enabled, date |-> @.date]]
                w == writeMetricsConfig(f, c)
            IN Outcome(w.file, <<c>>, w.threw, Undefined)

\* updateC3Pemission(enabled)
updateC3Pemission(f, enabled) ==
    LET r == readMetricsConfig(f)
        config == r.value
    IN IF r.threw THEN Outcome(f, << >>, TRUE, Undefined) ELSE
       IF config.c3permission # Undefined /\ config.c3permission.enabled = enabled
       THEN Outcome(f, << >>, FALSE, Undefined)
       ELSE LET c == [config EXCEPT !.c3permission = initializeC3Permission(enabled)]
                w == writeMetricsConfig(f, c)
            IN Outcome(w.file, <<c>>, w.threw, Undefined)

\* getC3Permission(), its parameter defaulting to readMetricsConfig() ?? {}
getC3PermissionDefault(f) ==
    LET r == readMetricsConfig(f)
    IN IF r.threw THEN Outcome(f, << >>, TRUE, Undefined)
                  ELSE getC3Permission(f, r.value)

Actions == {"status", "enable", "disable"}

\* logTelemetryStatus(enabled)
StatusLine(enabled) == IF enabled THEN "Status: Enabled" ELSE "Status: Disabled"

\* runTelemetryCommand(action); its value here is the status line it logged,
\* Undefined when it threw before logging
runTelemetryCommand(f, action) ==
    IF action = "status"
    THEN LET g == getC3PermissionDefault(f)
         IN Outcome(g.file, g.writes, g.threw,
                    IF g.threw THEN Undefined ELSE [line |-> StatusLine(g.ret.enabled)])
    ELSE LET u == updateC3Pemission(f, action = "enable")
         IN Outcome(u.file, u.writes, u.threw,
                    IF u.threw THEN Undefined
                               ELSE [line |-> StatusLine(action = "enable")])

\* getDeviceId that does not store the id it creates
getDeviceIdNoWrite(f) ==
    LET r == readMetricsConfig(f)
        config == r.value
    IN IF r.threw THEN Outcome(f, << >>, TRUE, Undefined) ELSE
       Outcome(f, << >>, FALSE,
               IF config.deviceId = Undefined THEN Uuid(uuids) ELSE config.deviceId)

\* getDeviceId that writes the new id without the config it read
getDeviceIdNoSpread(f) ==
    LET r == readMetricsConfig(f)
        config == r.value
        deviceId == IF config.deviceId = Undefined THEN Uuid(uuids) ELSE config.deviceId
    IN IF r.threw THEN Outcome(f, << >>, TRUE, Undefined) ELSE
       IF config.deviceId = Undefined
       THEN LET c == [EmptyConfig EXCEPT !.deviceId = deviceId]
                w == writeMetricsConfig(f, c)
            IN Outcome(w.file, <<c>>, w.threw, IF w.threw THEN Undefined ELSE deviceId)
       ELSE Outcome(f, << >>, FALSE, deviceId)

\* getDeviceId()
getDeviceId(f) ==
    LET r == readMetricsConfig(f)
        config == r.value
        deviceId == IF config.deviceId = Undefined THEN Uuid(uuids) ELSE config.deviceId
    IN IF r.threw THEN Outcome(f, << >>, TRUE, Undefined) ELSE
       IF config.deviceId = Undefined
       THEN LET c == [config EXCEPT !.deviceId = deviceId]
                w == writeMetricsConfig(f, c)
            IN Outcome(w.file, <<c>>, w.threw, IF w.threw THEN Undefined ELSE deviceId)
       ELSE Outcome(f, << >>, FALSE, deviceId)

\* -------------------------------------------------------------- Init
Init ==
    /\ now = 0
    /\ telemetry \in BOOLEAN
    /\ hasKey \in BOOLEAN
    /\ events = << >>
    /\ calls = << >>
    /\ listeners = [s \in Signals |-> {}]
    /\ pc = [i \in Invs |-> "idle"]
    /\ opts = [i \in Invs |-> NoOptions]
    /\ startTime = [i \in Invs |-> 0]
    /\ additionalProperties = [i \in Invs |-> Empty]
    /\ op = [i \in Invs |-> NotCreated]
    /\ thunkCalls = [i \in Invs |-> 0]
    /\ cancelPromise = [i \in Invs |-> NotCreated]
    /\ race = [i \in Invs |-> NotCreated]
    /\ result = [i \in Invs |-> NotCreated]
    /\ setThrows = 0
    /\ file = Json(Stringify([EmptyConfig EXCEPT
                                 !.c3permission = [enabled |-> telemetry,
                                                   date |-> Date(0)],
                                 !.deviceId = Uuid(0)]))
    /\ writable = TRUE
    /\ uuids = 1
    /\ log = << >>
    /\ fetched = {}
    /\ waits = << >>

\* ------------------------------------------------------------ actions
\* collectAsyncMetrics(o) up to its await: the started event, the listeners,
\* the call of options.promise inside als.run. A throw of sendEvent or of
\* options.promise runs the catch and finally blocks in the same step.
Start(i, o, tb, e, pre) ==
    /\ pc[i] = "idle"
    /\ opts' = [opts EXCEPT ![i] = o]
    /\ startTime' = [startTime EXCEPT ![i] = now]
    /\ cancelPromise' = [cancelPromise EXCEPT ![i] = Pending]
    /\ LET h0 == [events |-> events, calls |-> calls, threw |-> FALSE]
           s == IF o.disableTelemetry
                THEN h0
                ELSE sendEvent(h0, i, EventName(o.eventPrefix, "started"),
                               o.startedProps)
       IN IF s.threw
          THEN LET c == CatchBlock(s, i, o, now, Empty, StringifyError)
               IN /\ events' = c.events
                  /\ calls' = c.calls
                  /\ result' = [result EXCEPT ![i] = c.outcome]
                  /\ pc' = [pc EXCEPT ![i] = "settled"]
                  /\ listeners' = ProcessOff(listeners, i)
                  /\ UNCHANGED <<op, thunkCalls, race, additionalProperties>>
          ELSE IF tb = "returns"
               THEN /\ events' = s.events
                    /\ calls' = s.calls
                    /\ listeners' = ProcessOn(listeners, i)
                    /\ op' = [op EXCEPT ![i] = Pending]
                    /\ race' = [race EXCEPT ![i] = Pending]
                    /\ thunkCalls' = [thunkCalls EXCEPT ![i] = @ + 1]
                    /\ pc' = [pc EXCEPT ![i] = "awaiting"]
                    /\ additionalProperties' =
                          [additionalProperties EXCEPT ![i] = pre]
                    /\ UNCHANGED result
               ELSE LET c == CatchBlock(s, i, o, now, pre, e)
                    IN /\ events' = c.events
                       /\ calls' = c.calls
                       /\ result' = [result EXCEPT ![i] = c.outcome]
                       /\ pc' = [pc EXCEPT ![i] = "settled"]
                       /\ listeners' = ProcessOff(ProcessOn(listeners, i), i)
                       /\ thunkCalls' = [thunkCalls EXCEPT ![i] = @ + 1]
                       /\ additionalProperties' =
                             [additionalProperties EXCEPT ![i] = pre]
                       /\ UNCHANGED <<op, race>>
    /\ UNCHANGED <<now, telemetry, hasKey, setThrows, storeVars, drainVars>>

\* The promise options.promise() returned settles; Promise.race takes the
\* first of its two promises to settle.
OpSettle(i, outcome) ==
    /\ op[i] = Pending
    /\ op' = [op EXCEPT ![i] = outcome]
    /\ race' = [race EXCEPT ![i] = IF @ = Pending THEN outcome ELSE @]
    /\ UNCHANGED <<now, telemetry, hasKey, events, calls, listeners, pc, opts,
                   startTime, additionalProperties, thunkCalls, cancelPromise,
                   result, setThrows, storeVars, drainVars>>

\* cancel(signal) of one invocation: reject(new CancelError(signal))
cancel(p, sig) == IF p = Pending THEN Rejected(CancelError(sig)) ELSE p

\* The process receives sig: every listener installed for it runs. (Without a
\* listener the default disposition ends the process.)
Signal(sig) ==
    /\ listeners[sig] # {}
    /\ cancelPromise' = [i \in Invs |-> IF i \in listeners[sig]
                                        THEN cancel(cancelPromise[i], sig)
                                        ELSE cancelPromise[i]]
    /\ race' = [i \in Invs |-> IF i \in listeners[sig]
                               THEN cancel(race[i], sig)
                               ELSE race[i]]
    /\ UNCHANGED <<now, telemetry, hasKey, events, calls, listeners, pc, opts,
                   startTime, additionalProperties, op, thunkCalls, result,
                   setThrows, storeVars, drainVars>>

\* Continue that first waits until every delivery handle has settled
ContinueAfterDelivery(i) ==
    /\ \A k \in DOMAIN events : events[k] # "pending"
    /\ pc[i] = "awaiting"
    /\ race[i].st \in {"fulfilled", "rejected"}
    /\ LET h0 == [events |-> events, calls |-> calls, threw |-> FALSE]
           c == IF race[i].st = "fulfilled"
                THEN TryRest(h0, i, opts[i], startTime[i],
                             additionalProperties[i], race[i].val)
                ELSE CatchBlock(h0, i, opts[i], startTime[i],
                                additionalProperties[i], race[i].val)
       IN /\ events' = c.events
          /\ calls' = c.calls
          /\ result' = [result EXCEPT ![i] = c.outcome]
    /\ listeners' = ProcessOff(listeners, i)
    /\ pc' = [pc EXCEPT ![i] = "settled"]
    /\ UNCHANGED <<now, telemetry, hasKey, opts, startTime, additionalProperties,
                   op, thunkCalls, cancelPromise, race, setThrows, storeVars,
                   drainVars>>

\* collectAsyncMetrics after its await: the rest of the try block or the catch
\* block, then the finally block.
Continue(i) ==
    /\ pc[i] = "awaiting"
    /\ race[i].st \in {"fulfilled", "rejected"}
    /\ LET h0 == [events |-> events, calls |-> calls, threw |-> FALSE]
           c == IF race[i].st = "fulfilled"
                THEN TryRest(h0, i, opts[i], startTime[i],
                             additionalProperties[i], race[i].val)
                ELSE CatchBlock(h0, i, opts[i], startTime[i],
                                additionalProperties[i], race[i].val)
       IN /\ events' = c.events
          /\ calls' = c.calls
          /\ result' = [result EXCEPT ![i] = c.outcome]
    /\ listeners' = ProcessOff(listeners, i)
    /\ pc' = [pc EXCEPT ![i] = "settled"]
    /\ UNCHANGED <<now, telemetry, hasKey, opts, startTime, additionalProperties,
                   op, thunkCalls, cancelPromise, race, setThrows, storeVars,
                   drainVars>>

\* getStore whose binding ends when the invocation settles
getStoreWhileAwaiting(caller) ==
    IF caller \in Invs /\ pc[caller] = "awaiting" THEN caller ELSE "undefined"

\* getStore with one binding for the whole reporter, that of the prompt's
\* operation once it runs
getStoreShared(caller) ==
    IF thunkCalls["b"] > 0 THEN "b"
    ELSE IF caller \in Invs /\ thunkCalls[caller] > 0 THEN caller ELSE "undefined"

\* als.getStore() as the code of caller sees it: the store als.run bound for
\* the operation of an invocation inside that operation's code, undefined in
\* code that runs in no operation ("main")
getStore(caller) ==
    IF caller \in Invs /\ thunkCalls[caller] > 0 THEN caller ELSE "undefined"

\* reporter.setEventProperty(name, key, value) called by the code of the
\* operation of invocation i, which runs inside that invocation's als.run
\* and keeps running until its promise settles.
SetEventProperty(i, name, key, value) ==
    /\ op[i] = Pending
    /\ <<key, value>> \in TypedContrib(name)
    /\ \/ <<name, key>> \in ContribPairs(additionalProperties[i])
       \/ Cardinality(ContribPairs(additionalProperties[i])) < MaxContrib
    /\ additionalProperties' =
          [additionalProperties EXCEPT ![getStore(i)] = SetProp(@, name, key, value)]
    /\ UNCHANGED <<now, telemetry, hasKey, events, calls, listeners, pc, opts,
                   startTime, op, thunkCalls, cancelPromise, race, result,
                   setThrows, storeVars, drainVars>>

\* Date.now() advances
Tick ==
    /\ now < MaxTime
    /\ now' = now + 1
    /\ UNCHANGED <<reporterVars, setThrows, storeVars, drainVars>>

\* the wall clock is set back
ClockBack ==
    /\ now > 0
    /\ now' = now - 1
    /\ UNCHANGED <<reporterVars, setThrows, storeVars, drainVars>>

\* One instrumented operation at a time, with every input.
Solo == {"a"}

Next ==
    \/ \E i \in Solo, o \in Options, tb \in ThunkBehaviours, e \in OpErrors,
          pre \in PreContribs : Start(i, o, tb, e, pre)
    \/ \E i \in Solo, v \in Values : OpSettle(i, Fulfilled(v))
    \/ \E i \in Solo, e \in OpErrors : OpSettle(i, Rejected(e))
    \/ \E sig \in Signals : Signal(sig)
    \/ \E i \in Solo : Continue(i)
    \/ \E i \in Solo, n \in EventNames : \E kv \in TypedContrib(n) :
          SetEventProperty(i, n, kv[1], kv[2])
    \/ Tick
    \/ ClockBack

Spec == Init /\ [][Next]_vars

\* One instrumented operation on a clock that stands still. The event loop
\* runs the continuation of an await whose promise has settled: Continue is
\* taken once it is enabled. Nothing else is promised: the operation may
\* never settle and no signal may ever arrive.
NextLive ==
    \/ \E i \in Solo, o \in Options, tb \in ThunkBehaviours, e \in OpErrors,
          pre \in PreContribs : Start(i, o, tb, e, pre)
    \/ \E i \in Solo, v \in Values : OpSettle(i, Fulfilled(v))
    \/ \E i \in Solo, e \in OpErrors : OpSettle(i, Rejected(e))
    \/ \E sig \in Signals : Signal(sig)
    \/ \E i \in Solo : Continue(i)
    \/ \E i \in Solo, n \in EventNames : \E kv \in TypedContrib(n) :
          SetEventProperty(i, n, kv[1], kv[2])

SpecLive == Init /\ [][NextLive]_vars /\ \A i \in Solo : WF_vars(Continue(i))

\* Two instrumented operations of one reporter that may overlap (a session
\* and a prompt inside it), on a clock that stands still and without
\* contributed properties.
PairPrefix(i) == IF i = "a" THEN "c3 session" ELSE "c3 prompt"

PairOptions(i) == {o \in Options : o.eventPrefix = PairPrefix(i)}

NextPair ==
    \/ \E i \in Invs : \E o \in PairOptions(i), tb \in ThunkBehaviours,
                          e \in OpErrors : Start(i, o, tb, e, Empty)
    \/ \E i \in Invs, v \in Values : OpSettle(i, Fulfilled(v))
    \/ \E i \in Invs, e \in OpErrors : OpSettle(i, Rejected(e))
    \/ \E sig \in Signals : Signal(sig)
    \/ \E i \in Invs : Continue(i)

SpecPair == Init /\ [][NextPair]_vars

\* ---------------------------------------------- calls of the config store
\* one call of a config function as the history keeps it: the time, the file
\* before and after, the configs handed to writeMetricsConfig, the result
Call(fn, arg, o) ==
    [fn |-> fn, arg |-> arg, at |-> now, before |-> file, writes |-> o.writes,
     threw |-> o.threw, ret |-> o.ret, after |-> o.file]

Logged(fn, arg, o) ==
    /\ Len(log) < MaxCalls
    /\ file' = o.file
    /\ log' = Append(log, Call(fn, arg, o))

ReadMetricsConfig ==
    /\ LET r == readMetricsConfig(file)
       IN Logged("readMetricsConfig", "none", Outcome(file, << >>, r.threw, r.value))
    /\ UNCHANGED <<now, reporterVars, setThrows, writable, uuids, drainVars>>

GetC3Permission ==
    /\ Logged("getC3Permission", "none", getC3PermissionDefault(file))
    /\ UNCHANGED <<now, reporterVars, setThrows, writable, uuids, drainVars>>

UpdateC3Pemission(enabled) ==
    /\ Logged("updateC3Pemission", enabled, updateC3Pemission(file, enabled))
    /\ UNCHANGED <<now, reporterVars, setThrows, writable, uuids, drainVars>>

RunTelemetryCommand(action) ==
    /\ Logged("runTelemetryCommand", action, runTelemetryCommand(file, action))
    /\ UNCHANGED <<now, reporterVars, setThrows, writable, uuids, drainVars>>

GetDeviceId ==
    /\ Logged("getDeviceId", "none", getDeviceId(file))
    /\ LET r == readMetricsConfig(file)
       IN uuids' = IF ~r.threw /\ r.value.deviceId = Undefined
                   THEN uuids + 1 ELSE uuids
    /\ UNCHANGED <<now, reporterVars, setThrows, writable, drainVars>>

\* The config files a process can find: none, one it may not read, one that
\* holds no JSON, and one that holds any subset of the three keys.
InitConfigs ==
    [permission : {Undefined, [enabled |-> TRUE, date |-> Date(0)]},
     c3permission : {Undefined} \cup {[enabled |-> b, date |-> Date(0)] : b \in BOOLEAN},
     deviceId : {Undefined, Uuid(0)}]

InitFiles == {Absent, Denied, Invalid} \cup {Json(Stringify(c)) : c \in InitConfigs}

InitStore ==
    /\ now = 0
    /\ telemetry = FALSE
    /\ hasKey = FALSE
    /\ events = << >>
    /\ calls = << >>
    /\ listeners = [s \in Signals |-> {}]
    /\ pc = [i \in Invs |-> "idle"]
    /\ opts = [i \in Invs |-> NoOptions]
    /\ startTime = [i \in Invs |-> 0]
    /\ additionalProperties = [i \in Invs |-> Empty]
    /\ op = [i \in Invs |-> NotCreated]
    /\ thunkCalls = [i \in Invs |-> 0]
    /\ cancelPromise = [i \in Invs |-> NotCreated]
    /\ race = [i \in Invs |-> NotCreated]
    /\ result = [i \in Invs |-> NotCreated]
    /\ setThrows = 0
    /\ file \in InitFiles
    /\ writable \in BOOLEAN
    /\ file.kind = "denied" => ~writable
    /\ uuids = 1
    /\ log = << >>
    /\ fetched = {}
    /\ waits = << >>

\* The config functions called in any order on any store.
NextStore ==
    \/ ReadMetricsConfig
    \/ GetC3Permission
    \/ \E enabled \in BOOLEAN : UpdateC3Pemission(enabled)
    \/ \E action \in Actions : RunTelemetryCommand(action)
    \/ GetDeviceId
    \/ Tick
    \/ ClockBack

SpecStore == InitStore /\ [][NextStore]_vars

\* ------------------------------------------------------- createReporter
\* createReporter whose getDeviceId works on the config as first read,
\* without the record getC3Permission put into it
createReporterStaleConfig(f) ==
    LET r == readMetricsConfig(f)
        g == getC3Permission(f, r.value)
        config == r.value
        deviceId == IF config.deviceId = Undefined THEN Uuid(uuids) ELSE config.deviceId
    IN IF r.threw \/ g.threw
       THEN Outcome(g.file, g.writes, TRUE, Undefined)
       ELSE IF config.deviceId = Undefined
            THEN LET c == [config EXCEPT !.deviceId = deviceId]
                     w == writeMetricsConfig(g.file, c)
                 IN Outcome(w.file, g.writes \o <<c>>, w.threw,
                            IF w.threw THEN Undefined
                            ELSE [telemetry |-> g.ret, deviceId |-> deviceId])
            ELSE Outcome(g.file, g.writes, FALSE,
                         [telemetry |-> g.ret, deviceId |-> deviceId])

\* createReporter(): config = readMetricsConfig(), telemetry =
\* getC3Permission(config), which puts a missing record into config and
\* writes it, then deviceId = getDeviceId(), which reads the file again
createReporter(f) ==
    LET r == readMetricsConfig(f)
        g == getC3Permission(f, r.value)
        d == getDeviceId(g.file)
    IN IF r.threw \/ g.threw
       THEN Outcome(g.file, g.writes, TRUE, Undefined)
       ELSE Outcome(d.file, g.writes \o d.writes, d.threw,
                    IF d.threw THEN Undefined
                    ELSE [telemetry |-> g.ret, deviceId |-> d.ret])

\* createReporter() run by a process; telemetry is the record it captured
CreateReporter ==
    /\ LET o == createReporter(file)
       IN /\ Logged("createReporter", "none", o)
          /\ telemetry' = IF o.threw THEN telemetry ELSE o.ret.telemetry.enabled
          /\ uuids' = IF \E k \in DOMAIN o.writes :
                            o.writes[k].deviceId = Uuid(uuids)
                      THEN uuids + 1 ELSE uuids
    /\ UNCHANGED <<now, hasKey, events, calls, listeners, pc, opts, startTime,
                   additionalProperties, op, thunkCalls, cancelPromise, race,
                   result, setThrows, writable, drainVars>>

\* The config functions and commands, and processes constructing a reporter.
NextCreate ==
    \/ NextStore
    \/ CreateReporter

SpecCreate == InitStore /\ [][NextCreate]_vars

\* ------------------------------------------- the reporter and the store
\* reporter.sendEvent(name, properties) called by the program itself
SendEvent(name, properties) ==
    /\ Len(calls) < MaxSends
    /\ LET s == sendEvent([events |-> events, calls |-> calls], "direct",
                          name, properties)
       IN /\ events' = s.events
          /\ calls' = s.calls
    /\ UNCHANGED <<now, telemetry, hasKey, listeners, pc, opts, startTime,
                   additionalProperties, op, thunkCalls, cancelPromise, race,
                   result, setThrows, storeVars, drainVars>>

\* A constructed reporter sending events, by itself and through one
\* instrumented operation, while the permission commands run.
NextGate ==
    \/ \E p \in Prefixes, sp \in StartedPropsChoices :
          SendEvent(EventName(p, "started"), sp)
    \/ \E i \in Solo, o \in Options, tb \in ThunkBehaviours, e \in OpErrors :
          Start(i, o, tb, e, Empty)
    \/ \E i \in Solo, v \in Values : OpSettle(i, Fulfilled(v))
    \/ \E i \in Solo : Continue(i)
    \/ \E enabled \in BOOLEAN : UpdateC3Pemission(enabled)
    \/ \E action \in Actions : RunTelemetryCommand(action)
    \/ Tick

SpecGate == Init /\ [][NextGate]_vars

\* ------------------------------------------------ the operation context
\* reporter.setEventProperty(name, key, value) called by code that runs in
\* no operation
SetEventPropertyOutside(name, key, value) ==
    /\ setThrows < MaxThrows
    /\ <<key, value>> \in TypedContrib(name)
    /\ LET store == getStore("main")
       IN IF store = "undefined"
          THEN /\ setThrows' = setThrows + 1
               /\ UNCHANGED additionalProperties
          ELSE /\ additionalProperties' =
                     [additionalProperties EXCEPT ![store] = SetProp(@, name, key, value)]
               /\ UNCHANGED setThrows
    /\ UNCHANGED <<now, telemetry, hasKey, events, calls, listeners, pc, opts,
                   startTime, op, thunkCalls, cancelPromise, race, result,
                   storeVars, drainVars>>

\* One instrumented operation, with setEventProperty called from its code
\* and from code outside it.
NextContext ==
    \/ \E i \in Solo, o \in Options, tb \in ThunkBehaviours, e \in OpErrors :
          Start(i, o, tb, e, Empty)
    \/ \E i \in Solo, v \in Values : OpSettle(i, Fulfilled(v))
    \/ \E i \in Solo, e \in OpErrors : OpSettle(i, Rejected(e))
    \/ \E sig \in Signals : Signal(sig)
    \/ \E i \in Solo : Continue(i)
    \/ \E i \in Solo, n \in EventNames : \E kv \in TypedContrib(n) :
          SetEventProperty(i, n, kv[1], kv[2])
    \/ \E n \in EventNames : \E kv \in TypedContrib(n) :
          SetEventPropertyOutside(n, kv[1], kv[2])

SpecContext == Init /\ [][NextContext]_vars

\* --------------------------------------------------------------- draining
FetchOutcomes == {"fulfilled", "rejected"}

\* events[k] as Promise.allSettled sees it: undefined (no credential) is a
\* plain value and counts as fulfilled, a fetch promise is pending until it
\* has settled
HandleState(ev, fe, k) ==
    IF ev[k] = "undefined" THEN "fulfilled"
    ELSE IF <<k, "fulfilled">> \in fe THEN "fulfilled"
    ELSE IF <<k, "rejected">> \in fe THEN "rejected"
    ELSE "pending"

\* Promise.all in the place of Promise.allSettled
promiseAll(awaited, ev, fe) ==
    IF \E k \in awaited : HandleState(ev, fe, k) = "rejected" THEN "rejected"
    ELSE IF \E k \in awaited : HandleState(ev, fe, k) = "pending" THEN "pending"
    ELSE "fulfilled"

\* Promise.allSettled over the handles awaited
allSettled(awaited, ev, fe) ==
    IF \E k \in awaited : HandleState(ev, fe, k) = "pending" THEN "pending"
    ELSE "fulfilled"

\* Awaited reading the events array anew each time
AwaitedLive(w, ev) == DOMAIN ev

\* the handles a waitForAllEventsSettled call awaits: Promise.allSettled(events)
\* iterates the array once, when it is called
Awaited(w, ev) == w.awaited

\* the promises of the waitForAllEventsSettled calls once the microtasks
\* that follow a step have run
Resolve(ws, ev, fe) ==
    [w \in DOMAIN ws |->
        IF ws[w].st = "pending"
        THEN [ws[w] EXCEPT !.st = allSettled(Awaited(ws[w], ev), ev, fe)]
        ELSE ws[w]]

\* reporter.waitForAllEventsSettled()
WaitForAllEventsSettled ==
    /\ Len(waits) < MaxWaits
    /\ waits' = Resolve(Append(waits, [awaited |-> DOMAIN events, st |-> "pending"]),
                        events, fetched)
    /\ UNCHANGED <<now, reporterVars, setThrows, storeVars, fetched>>

\* the fetch promise events[k] settles
FetchSettle(k, outcome) ==
    /\ k \in DOMAIN events
    /\ HandleState(events, fetched, k) = "pending"
    /\ fetched' = fetched \cup {<<k, outcome>>}
    /\ waits' = Resolve(waits, events, fetched')
    /\ UNCHANGED <<now, reporterVars, setThrows, storeVars>>

\* A reporter that sends events, whose deliveries settle, and that is drained.
NextDrain ==
    \/ \E p \in Prefixes, sp \in StartedPropsChoices :
          SendEvent(EventName(p, "started"), sp)
    \/ \E k \in 1..MaxSends, outcome \in FetchOutcomes : FetchSettle(k, outcome)
    \/ WaitForAllEventsSettled

SpecDrain == Init /\ [][NextDrain]_vars

\* ------------------------------------------------ overlapping operations
\* A session and a prompt that overlap (the prompt may run inside the
\* session's operation). The session's operation contributes args, for its
\* own completed event or for the prompt's; the prompt's operation
\* contributes answer.
NextOverlap ==
    \/ \E i \in Invs : \E o \in PairOptions(i), tb \in ThunkBehaviours :
          Start(i, o, tb, OpError, Empty)
    \/ \E i \in Invs, v \in Values : OpSettle(i, Fulfilled(v))
    \/ \E i \in Invs : OpSettle(i, Rejected(OpError))
    \/ \E i \in Invs : Continue(i)
    \/ \E p \in Prefixes : SetEventProperty("a", EventName(p, "completed"), "args", Other)
    \/ \E v \in {Plain, Circular} :
          SetEventProperty("b", EventName("c3 prompt", "completed"), "answer", v)

SpecOverlap == Init /\ [][NextOverlap]_vars

\* ------------------------------------------------ abandoned operations
\* A session and a prompt that overlap and can be interrupted. An
\* interrupted invocation settles while its operation goes on, and that
\* operation still contributes args under its invocation's cancelled or
\* completed event.
NextAbandoned ==
    \/ \E i \in Invs : \E o \in PairOptions(i), tb \in ThunkBehaviours :
          Start(i, o, tb, OpError, Empty)
    \/ \E i \in Invs, v \in Values : OpSettle(i, Fulfilled(v))
    \/ \E sig \in Signals : Signal(sig)
    \/ \E i \in Invs : Continue(i)
    \/ \E i \in Invs, st \in {"cancelled", "completed"} :
          SetEventProperty(i, EventName(PairPrefix(i), st), "args", Other)

SpecAbandoned == Init /\ [][NextAbandoned]_vars

\* ------------------------------------- the module-level collectAsyncMetrics
\* The functions of the module that keeps events, the context and the
\* listeners at module level. Its heap h = [events, calls, file] includes the
\* config file, which its sendEvent reads on every call.

\* getTelemetryStatus(): the persisted record, created enabled when missing
getTelemetryStatus(f) ==
    LET r == readMetricsConfig(f)
        config == r.value
    IN IF r.threw THEN Outcome(f, << >>, TRUE, Undefined) ELSE
       IF config.c3permission = Undefined
       THEN LET c == [config EXCEPT !.c3permission = [enabled |-> TRUE, date |-> Date(now)]]
                w == writeMetricsConfig(f, c)
            IN Outcome(w.file, <<c>>, w.threw,
                       IF w.threw THEN Undefined ELSE c.c3permission)
       ELSE Outcome(f, << >>, FALSE, config.c3permission)

\* sendEvent(name, properties) of the module
moduleSendEvent(h, i, name, properties) ==
    LET t == getTelemetryStatus(h.file)
    IN IF t.threw
       THEN [events |-> h.events, calls |-> h.calls, file |-> t.file, threw |-> TRUE]
       ELSE IF ~t.ret.enabled
       THEN [events |-> h.events, calls |-> h.calls, file |-> t.file, threw |-> FALSE]
       ELSE LET payload == [event |-> name, deviceId |-> "d1", userId |-> "u1",
                            timestamp |-> now,
                            properties |-> Spread(AmbientProps, properties)]
                r == sparrowSendEvent(payload)
            IN [events |-> IF r.threw THEN h.events ELSE Append(h.events, r.handle),
                calls |-> Append(h.calls, [inv |-> i, payload |-> payload,
                                           threw |-> r.threw, fetched |-> r.fetched]),
                file |-> t.file,
                threw |-> r.threw]

\* handleCancel(signal): sends the cancelled event
handleCancel(h, i, o, signal) ==
    moduleSendEvent(h, i, EventName(o.eventPrefix, "cancelled"),
                    Spread(o.props, Prop("signal", signal)))

\* the catch block of the module's collectAsyncMetrics
moduleCatchBlock(h, i, o, e) ==
    LET s == IF InstanceOfCancelError(e)
             THEN handleCancel(h, i, o, "undefined")
             ELSE moduleSendEvent(h, i, EventName(o.eventPrefix, "errored"),
                                  Spread(o.props, Prop("error", ErrorProp(e))))
    IN [events |-> s.events, calls |-> s.calls, file |-> s.file,
        outcome |-> IF s.threw THEN Rejected(StringifyError) ELSE Rejected(e)]

\* the try block of the module's collectAsyncMetrics after its await
moduleTryRest(h, i, o, v) ==
    LET s == moduleSendEvent(h, i, EventName(o.eventPrefix, "completed"), o.props)
    IN IF s.threw
       THEN moduleCatchBlock(s, i, o, StringifyError)
       ELSE [events |-> s.events, calls |-> s.calls, file |-> s.file,
             outcome |-> Fulfilled(v)]

ModuleOptions == [eventPrefix : Prefixes, props : StartedPropsChoices]

\* collectAsyncMetrics(config) of the module up to its await
ModuleStart(i, o, tb, e) ==
    /\ pc[i] = "idle"
    /\ opts' = [opts EXCEPT ![i] = o]
    /\ LET h0 == [events |-> events, calls |-> calls, file |-> file]
           s == moduleSendEvent(h0, i, EventName(o.eventPrefix, "started"), o.props)
       IN IF s.threw
          THEN LET c == moduleCatchBlock(s, i, o, StringifyError)
               IN /\ events' = c.events /\ calls' = c.calls /\ file' = c.file
                  /\ result' = [result EXCEPT ![i] = c.outcome]
                  /\ pc' = [pc EXCEPT ![i] = "settled"]
                  /\ listeners' = ProcessOff(listeners, i)
                  /\ UNCHANGED <<op, thunkCalls>>
          ELSE IF tb = "returns"
               THEN /\ events' = s.events /\ calls' = s.calls /\ file' = s.file
                    /\ listeners' = ProcessOn(listeners, i)
                    /\ op' = [op EXCEPT ![i] = Pending]
                    /\ thunkCalls' = [thunkCalls EXCEPT ![i] = @ + 1]
                    /\ pc' = [pc EXCEPT ![i] = "awaiting"]
                    /\ UNCHANGED result
               ELSE LET c == moduleCatchBlock(s, i, o, e)
                    IN /\ events' = c.events /\ calls' = c.calls /\ file' = c.file
                       /\ result' = [result EXCEPT ![i] = c.outcome]
                       /\ pc' = [pc EXCEPT ![i] = "settled"]
                       /\ listeners' = ProcessOff(ProcessOn(listeners, i), i)
                       /\ thunkCalls' = [thunkCalls EXCEPT ![i] = @ + 1]
                       /\ UNCHANGED op
    /\ UNCHANGED <<now, telemetry, hasKey, startTime, additionalProperties,
                   cancelPromise, race, setThrows, writable, uuids, log, drainVars>>

\* the promise config.promise() returned settles
ModuleOpSettle(i, outcome) ==
    /\ pc[i] = "awaiting"
    /\ op[i] = Pending
    /\ op' = [op EXCEPT ![i] = outcome]
    /\ UNCHANGED <<now, telemetry, hasKey, events, calls, listeners, pc, opts,
                   startTime, additionalProperties, thunkCalls, cancelPromise,
                   race, result, setThrows, storeVars, drainVars>>

\* the module's collectAsyncMetrics after its await, then its finally block
ModuleContinue(i) ==
    /\ pc[i] = "awaiting"
    /\ op[i].st \in {"fulfilled", "rejected"}
    /\ LET h0 == [events |-> events, calls |-> calls, file |-> file]
           c == IF op[i].st = "fulfilled"
                THEN moduleTryRest(h0, i, opts[i], op[i].val)
                ELSE moduleCatchBlock(h0, i, opts[i], op[i].val)
       IN /\ events' = c.events /\ calls' = c.calls /\ file' = c.file
          /\ result' = [result EXCEPT ![i] = c.outcome]
    /\ listeners' = ProcessOff(listeners, i)
    /\ pc' = [pc EXCEPT ![i] = "settled"]
    /\ UNCHANGED <<now, telemetry, hasKey, opts, startTime, additionalProperties,
                   op, thunkCalls, cancelPromise, race, setThrows, writable,
                   uuids, log, drainVars>>

\* The process receives sig while invocation i alone listens: handleCancel(sig)
\* runs. The operation goes on: nothing rejects it.
ModuleSignal(i, sig) ==
    /\ listeners[sig] = {i}
    /\ Len(calls) < MaxSends
    /\ LET h0 == [events |-> events, calls |-> calls, file |-> file]
           s == handleCancel(h0, i, opts[i], sig)
       IN /\ ~s.threw
          /\ events' = s.events /\ calls' = s.calls /\ file' = s.file
    /\ UNCHANGED <<now, telemetry, hasKey, listeners, pc, opts, startTime,
                   additionalProperties, op, thunkCalls, cancelPromise, race,
                   result, setThrows, writable, uuids, log, drainVars>>

\* appendMetricsData(key, value) called by the code of the operation of
\* invocation i, with a value JSON.stringify accepts: config.props[key] = value
AppendMetricsData(i, key, value) ==
    /\ pc[i] = "awaiting"
    /\ op[i] = Pending
    /\ opts' = [opts EXCEPT ![i].props = Spread(@, Prop(key, value))]
    /\ UNCHANGED <<now, telemetry, hasKey, events, calls, listeners, pc,
                   startTime, additionalProperties, op, thunkCalls, cancelPromise,
                   race, result, setThrows, storeVars, drainVars>>

\* One operation instrumented by the module's collectAsyncMetrics.
NextModule ==
    \/ \E i \in Solo, o \in ModuleOptions, tb \in ThunkBehaviours, e \in OpErrors :
          ModuleStart(i, o, tb, e)
    \/ \E i \in Solo, v \in Values : ModuleOpSettle(i, Fulfilled(v))
    \/ \E i \in Solo, e \in OpErrors : ModuleOpSettle(i, Rejected(e))
    \/ \E i \in Solo : ModuleContinue(i)
    \/ \E i \in Solo, sig \in Signals : ModuleSignal(i, sig)
    \/ \E i \in Solo : AppendMetricsData(i, "args", Other)
    \/ \E i \in Solo : AppendMetricsData(i, "answer", Plain)
    \/ Tick

SpecModule == Init /\ [][NextModule]_vars

\* ------------------------------------------------- reading the history
\* the invocation reports: permission enabled and disableTelemetry unset
Reports(i) == telemetry /\ ~opts[i].disableTelemetry

StageOf(c) == c.payload.event[2]

\* the calls of the delivery client made for invocation i that returned
SentOf(i) == {k \in DOMAIN calls : calls[k].inv = i /\ ~calls[k].threw}

SentTerminals(i) == {k \in SentOf(i) : StageOf(calls[k]) \in TerminalStages}

SentStages(i) == {StageOf(calls[k]) : k \in SentTerminals(i)}

\* the race of invocation i was settled by an interrupt
Interrupted(i) == race[i].st = "rejected" /\ race[i].val.origin = "signal"

\* the race of invocation i was settled by the operation itself
OwnOutcome(i) ==
    \/ race[i].st = "fulfilled"
    \/ race[i].st = "rejected" /\ race[i].val.origin = "op"

SameOutcome(x, y) == x.st = y.st /\ x.val = y.val

PropsOf(k) == calls[k].payload.properties

\* C1: an invocation that reports has sent no terminal event while it is in
\* progress and exactly one terminal event once it has settled, whatever the
\* operation did and whatever signals arrived.
C1_ExactlyOneTerminalEvent ==
    \A i \in Invs :
        (pc[i] # "idle" /\ Reports(i)) =>
            Cardinality(SentTerminals(i)) = IF pc[i] = "settled" THEN 1 ELSE 0

\* the invocation was interrupted, the abandoned operation resolved later, and
\* one terminal event stands
C1_Witness ==
    /\ pc["a"] = "settled" /\ Reports("a") /\ hasKey
    /\ Interrupted("a") /\ op["a"].st = "fulfilled"
    /\ Cardinality(SentTerminals("a")) = 1

\* C2: an invocation whose race was settled by a signal, once settled, has
\* sent the cancelled event as its only terminal event and rejected with the
\* CancelError of that signal, and this stays so whatever the abandoned
\* operation and later signals do.
C2_InterruptReportsCancelledOnce ==
    \A i \in Invs :
        (pc[i] = "settled" /\ Interrupted(i)) =>
            /\ SameOutcome(result[i], race[i])
            /\ InstanceOfCancelError(result[i].val)
            /\ (Reports(i) =>
                  /\ Cardinality(SentTerminals(i)) = 1
                  /\ SentStages(i) = {"cancelled"})

\* SIGTERM won the race, the abandoned operation rejected afterwards
C2_Witness ==
    /\ pc["a"] = "settled" /\ Reports("a") /\ hasKey
    /\ race["a"] = Rejected(CancelError("SIGTERM"))
    /\ op["a"] = Rejected(OpError)
    /\ SentStages("a") = {"cancelled"}

\* C3: every terminal event handed to the delivery client comes after the
\* started event of the same invocation, which was sent and whose handle is
\* in the pending list; the pending list holds one handle per event sent.
C3_StartedBeforeTerminal ==
    /\ Len(events) = Cardinality({k \in DOMAIN calls : ~calls[k].threw})
    /\ \A k \in DOMAIN calls :
          StageOf(calls[k]) \in TerminalStages =>
              \E j \in 1..(k - 1) :
                  /\ calls[j].inv = calls[k].inv
                  /\ calls[j].payload.event = EventName(calls[k].payload.event[1], "started")
                  /\ ~calls[j].threw
    /\ \A i \in Invs :
          (pc[i] = "awaiting" /\ Reports(i)) =>
              \E j \in SentOf(i) : StageOf(calls[j]) = "started"

\* a started event followed by the errored event of the same invocation
C3_Witness ==
    /\ Len(calls) = 2 /\ Len(events) = 2
    /\ StageOf(calls[1]) = "started" /\ StageOf(calls[2]) = "errored"
    /\ pc["a"] = "settled"

\* C4: an invocation whose operation resolved with V before any interrupt
\* resolves with V, and its terminal event is the completed event with
\* durationMs >= 0.
C4_ResolvedReportsCompleted ==
    \A i \in Invs :
        (pc[i] = "settled" /\ race[i].st = "fulfilled") =>
            /\ SameOutcome(result[i], race[i])
            /\ (Reports(i) =>
                  /\ SentStages(i) = {"completed"}
                  /\ \A k \in SentTerminals(i) : PropsOf(k)["durationMs"] >= 0)

\* C5: an invocation whose operation rejected with the cancellation marker
\* rejects with that same value, and its terminal event is the cancelled event.
C5_CancelMarkerReportsCancelled ==
    \A i \in Invs :
        (pc[i] = "settled" /\ race[i] = Rejected(OpCancelError)) =>
            /\ SameOutcome(result[i], race[i])
            /\ (Reports(i) => SentStages(i) = {"cancelled"})

\* the operation rejected with the marker and the cancelled event was sent
C5_Witness ==
    /\ pc["a"] = "settled" /\ Reports("a")
    /\ race["a"] = Rejected(OpCancelError)
    /\ SentStages("a") = {"cancelled"}
    /\ result["a"] = Rejected(OpCancelError)

\* C6: an invocation whose operation rejected with an Error that is no
\* CancelError rejects with that same value, and its terminal event is the
\* errored event carrying the error's message.
C6_ErrorReportsErrored ==
    \A i \in Invs :
        (pc[i] = "settled" /\ race[i].st = "rejected" /\ race[i].val.kind = "Error") =>
            /\ SameOutcome(result[i], race[i])
            /\ (Reports(i) =>
                  /\ SentStages(i) = {"errored"}
                  /\ \A k \in SentTerminals(i) :
                        PropsOf(k)["error"].message = race[i].val.message)

\* the operation rejected with an Error and the errored event was sent
C6_Witness ==
    /\ pc["a"] = "settled" /\ Reports("a")
    /\ race["a"] = Rejected(OpError)
    /\ \E k \in SentTerminals("a") : PropsOf(k)["error"].message = "test error"
    /\ result["a"] = Rejected(OpError)

\* C7: a cancelled event reported because a signal won the race carries the
\* property signal, equal to the name of that signal; a cancelled event
\* reported because the operation raised the cancellation marker carries none.
C7_CancelledCarriesSignal ==
    \A i \in Invs : \A k \in SentTerminals(i) :
        (pc[i] = "settled" /\ StageOf(calls[k]) = "cancelled") =>
            IF Interrupted(i)
            THEN /\ "signal" \in DOMAIN PropsOf(k)
                 /\ PropsOf(k)["signal"] = race[i].val.message
            ELSE "signal" \notin DOMAIN PropsOf(k)

\* C8: a settled invocation has no listener installed, only invocations in
\* progress have listeners, every invocation's listeners come as the pair
\* SIGINT and SIGTERM, and once every started invocation has settled no
\* listener is left.
C8_HandlersScoped ==
    /\ \A s \in Signals : listeners[s] \subseteq {i \in Invs : pc[i] = "awaiting"}
    /\ listeners["SIGINT"] = listeners["SIGTERM"]
    /\ Cardinality(listeners["SIGINT"]) <= Cardinality({i \in Invs : pc[i] = "awaiting"})
    /\ (\A i \in Invs : pc[i] # "awaiting") => \A s \in Signals : listeners[s] = {}

\* one invocation has settled through an interrupt and released its
\* listeners while another is in progress and holds its own
C8_Witness ==
    /\ pc["a"] = "settled" /\ Interrupted("a")
    /\ pc["b"] = "awaiting"
    /\ \A s \in Signals : listeners[s] = {"b"}

\* the outcome invocation i has when telemetry is disabled for it
OutcomeWithoutTelemetry(i) ==
    LET h == [events |-> events, calls |-> calls, threw |-> FALSE]
        o == [opts[i] EXCEPT !.disableTelemetry = TRUE]
    IN IF race[i].st = "fulfilled"
       THEN TryRest(h, i, o, startTime[i], additionalProperties[i], race[i].val).outcome
       ELSE CatchBlock(h, i, o, startTime[i], additionalProperties[i], race[i].val).outcome

\* C9: a settled invocation has the outcome it has with telemetry disabled:
\* the permission, disableTelemetry and the credential have no influence on
\* the value or error collectAsyncMetrics settles with.
C9_OutcomeIndependentOfTelemetry ==
    \A i \in Invs :
        (pc[i] = "settled" /\ race[i].st \in {"fulfilled", "rejected"}) =>
            SameOutcome(result[i], OutcomeWithoutTelemetry(i))

\* C10: a failure of the delivery client is not surfaced: a settled invocation
\* has run its operation once, does not reject with an error of the delivery
\* client, settles with the outcome of its race, and no event was sent twice.
C10_DeliveryFailureNotSurfaced ==
    /\ \A i \in Invs :
          pc[i] = "settled" =>
              /\ thunkCalls[i] = 1
              /\ (result[i].st = "rejected" => result[i].val.origin # "delivery")
    /\ \A j, k \in DOMAIN calls :
          (calls[j].inv = calls[k].inv /\ calls[j].payload.event = calls[k].payload.event)
              => j = k

\* the c3permission record readMetricsConfig finds has enabled = false
PersistedDisabled ==
    LET config == readMetricsConfig(file).value
    IN config.c3permission # Undefined /\ ~config.c3permission.enabled

\* C11: in a state whose persisted permission record has enabled = false, no
\* step calls the delivery client and no step changes the pending list,
\* whatever enable and disable commands and sends came before.
C11_DisabledSendsNothing ==
    [][PersistedDisabled => (Len(calls') = Len(calls) /\ events' = events)]_vars

\* no collectAsyncMetrics invocation of the reporter is in progress
NoActive == \A i \in Invs : pc[i] # "awaiting"

\* C12: while no collectAsyncMetrics invocation is in progress (before the
\* first, between two, after one has settled) no setEventProperty call takes
\* effect: a step that starts or ends no invocation leaves every contributed
\* property as it was.
C12_OutsideCallThrows ==
    [][(NoActive /\ pc' = pc) => additionalProperties' = additionalProperties]_vars

Settled(k) == HandleState(events, fetched, k) # "pending"

\* C13: the promise of a waitForAllEventsSettled call is never rejected, and
\* it is fulfilled exactly when every handle that was in events at the call
\* has settled, fulfilled or rejected.
C13_WaitResolvesWhenSettled ==
    \A w \in DOMAIN waits :
        /\ waits[w].st # "rejected"
        /\ waits[w].st = "fulfilled" <=> \A k \in waits[w].awaited : Settled(k)

\* a call that awaited a fetch which then rejected has resolved
C13_Witness ==
    \E w \in DOMAIN waits :
        /\ waits[w].st = "fulfilled"
        /\ \E k \in waits[w].awaited : <<k, "rejected">> \in fetched

\* C14: a waitForAllEventsSettled call does not wait for a handle pushed after
\* it: once the handles of its call time have settled it is fulfilled, while
\* a later handle is still pending.
C14_LaterHandleNotAwaited ==
    \A w \in DOMAIN waits :
        (/\ \A k \in waits[w].awaited : Settled(k)
         /\ \E k \in (DOMAIN events) \ waits[w].awaited : ~Settled(k))
            => waits[w].st = "fulfilled"

\* a call made while one fetch was in flight has resolved after that fetch
\* settled, with a fetch sent after the call still in flight
C14_Witness ==
    \E w \in DOMAIN waits :
        /\ waits[w].st = "fulfilled"
        /\ \E k \in waits[w].awaited : \E o \in FetchOutcomes : <<k, o>> \in fetched
        /\ \E k \in (DOMAIN events) \ waits[w].awaited : ~Settled(k)

\* the c3permission record the file f holds, as written (Undefined when the
\* file holds none or cannot be read as a config)
PersistedPermission(f) == IF f.kind = "json" THEN f.text.c3permission ELSE Undefined

\* the call sets the permission: updateC3Pemission, or the enable and disable
\* commands
SetsPermission(e) ==
    \/ e.fn = "updateC3Pemission"
    \/ e.fn = "runTelemetryCommand" /\ e.arg \in {"enable", "disable"}

Requested(e) == IF e.fn = "updateC3Pemission" THEN e.arg ELSE e.arg = "enable"

\* C15: a call that sets the permission to the value the persisted record
\* already has writes nothing and leaves the file, and so the date, as it
\* was; a call that sets another value (or finds no record) hands
\* writeMetricsConfig one config, whose record is {enabled: requested,
\* date: now}, and that record is what the file holds afterwards (the file
\* is untouched when the write itself fails).
C15_SetPermissionIdempotent ==
    \A k \in DOMAIN log :
        LET e == log[k]
            p == PersistedPermission(e.before)
        IN SetsPermission(e) =>
              IF p # Undefined /\ p.enabled = Requested(e)
              THEN /\ e.writes = << >>
                   /\ e.after = e.before
                   /\ ~e.threw
              ELSE /\ Len(e.writes) = 1
                   /\ e.writes[1].c3permission =
                         [enabled |-> Requested(e), date |-> Date(e.at)]
                   /\ IF e.threw
                      THEN ~writable /\ e.after = e.before
                      ELSE PersistedPermission(e.after) =
                              [enabled |-> Requested(e),
                               date |-> toISOString(Date(e.at))]

\* the permission was changed at one time and set to the same value again at
\* a later time, and the second call wrote nothing
C15_Witness ==
    /\ Len(log) = 2
    /\ SetsPermission(log[1]) /\ SetsPermission(log[2])
    /\ Requested(log[1]) = Requested(log[2])
    /\ Len(log[1].writes) = 1 /\ ~log[1].threw
    /\ log[2].at > log[1].at
    /\ log[2].writes = << >>
    /\ PersistedPermission(file).date = toISOString(Date(log[1].at))

\* enabled of the persisted record, or that there is none
PersistedEnabled(f) ==
    IF PersistedPermission(f) = Undefined THEN "undefined"
    ELSE IF PersistedPermission(f).enabled THEN "true" ELSE "false"

\* the call changed the value of enabled, or created the record
ChangedEnabled(e) == PersistedEnabled(e.before) # PersistedEnabled(e.after)

LastChange == CHOOSE k \in DOMAIN log :
                 /\ ChangedEnabled(log[k])
                 /\ \A j \in DOMAIN log : ChangedEnabled(log[j]) => j <= k

\* C16: the date of the persisted record is the time of the last call that
\* changed enabled or created the record; while no call has done so it is
\* the date the record had at the start.
C16_DateIsLastChange ==
    PersistedPermission(file) # Undefined =>
        PersistedPermission(file).date =
            IF \E k \in DOMAIN log : ChangedEnabled(log[k])
            THEN toISOString(Date(log[LastChange].at))
            ELSE toISOString(Date(0))

\* a call changed enabled at one time, a later call at another time set or
\* read the permission without changing it, and the date is that of the
\* first call
C16_Witness ==
    /\ Len(log) = 2
    /\ ChangedEnabled(log[1]) /\ PersistedEnabled(log[1].before) # "undefined"
    /\ log[1].at = 1
    /\ ~ChangedEnabled(log[2])
    /\ log[2].fn \in {"getC3Permission", "updateC3Pemission", "runTelemetryCommand"}
    /\ log[2].at = 0
    /\ PersistedPermission(file).date = toISOString(Date(1))

\* C17: runTelemetryCommand("status") logs the status of the persisted
\* record and writes nothing: the file after it is the file before it,
\* whatever the store held, a missing file or a missing record included.
C17_StatusDoesNotWrite ==
    \A k \in DOMAIN log :
        (log[k].fn = "runTelemetryCommand" /\ log[k].arg = "status") =>
            /\ log[k].writes = << >>
            /\ log[k].after = log[k].before
            /\ ~log[k].threw
            /\ PersistedEnabled(log[k].before) # "undefined" =>
                  log[k].ret = [line |-> StatusLine(PersistedPermission(log[k].before).enabled)]

\* C18: two getDeviceId calls in a row that start from a missing file (in a
\* place that can be written): both return, with the same id, and together
\* they hand writeMetricsConfig one config, in the first call; the second
\* call leaves the file as the first left it, holding that id.
C18_DeviceIdPersistedOnce ==
    \A k \in DOMAIN log :
        (/\ k + 1 \in DOMAIN log
         /\ log[k].fn = "getDeviceId" /\ log[k + 1].fn = "getDeviceId"
         /\ log[k].before = Absent
         /\ writable) =>
            /\ ~log[k].threw /\ ~log[k + 1].threw
            /\ log[k + 1].ret = log[k].ret
            /\ Len(log[k].writes) = 1 /\ log[k + 1].writes = << >>
            /\ log[k + 1].after = log[k].after
            /\ log[k].after.kind = "json" /\ log[k].after.text.deviceId = log[k].ret

\* getDeviceId ran twice from a missing file and returned the id it created
C18_Witness ==
    /\ Len(log) = 2
    /\ log[1].fn = "getDeviceId" /\ log[2].fn = "getDeviceId"
    /\ log[1].before = Absent
    /\ log[1].ret = Uuid(1) /\ log[2].ret = Uuid(1)
    /\ uuids = 2

\* C19: readMetricsConfig never throws and never touches the file; from a
\* file that is missing, unreadable or no JSON it returns {}.
C19_ReadNeverThrows ==
    \A k \in DOMAIN log :
        log[k].fn = "readMetricsConfig" =>
            /\ ~log[k].threw
            /\ log[k].writes = << >>
            /\ log[k].after = log[k].before
            /\ log[k].before.kind \in {"absent", "denied", "invalid"} =>
                  log[k].ret = EmptyConfig

\* readMetricsConfig returned {} from a file that holds no JSON and from a
\* file it may not read
C19_Witness ==
    \E k \in DOMAIN log :
        /\ log[k].fn = "readMetricsConfig"
        /\ log[k].before.kind \in {"invalid", "denied"}
        /\ ~log[k].threw
        /\ log[k].ret = EmptyConfig

\* C20: getC3Permission on a store that holds a c3permission record returns
\* that record (its date read back as a Date) and writes nothing. On a store
\* that holds none it hands writeMetricsConfig one config and, when that
\* write succeeds, returns {enabled: true, date: now}, which the file then
\* holds; a getC3Permission that follows at once returns the same record and
\* writes nothing.
C20_GetPermissionLazyInit ==
    \A k \in DOMAIN log :
        LET e == log[k]
            p == PersistedPermission(e.before)
        IN e.fn = "getC3Permission" =>
              IF p # Undefined
              THEN /\ ~e.threw
                   /\ e.ret = [enabled |-> p.enabled, date |-> NewDate(p.date)]
                   /\ e.writes = << >>
                   /\ e.after = e.before
              ELSE /\ Len(e.writes) = 1
                   /\ IF e.threw
                      THEN ~writable /\ e.after = e.before
                      ELSE /\ e.ret = [enabled |-> TRUE, date |-> Date(e.at)]
                           /\ e.writes[1].c3permission = e.ret
                           /\ PersistedPermission(e.after) =
                                 [enabled |-> TRUE, date |-> toISOString(Date(e.at))]
                           /\ (k + 1 \in DOMAIN log /\ log[k + 1].fn = "getC3Permission") =>
                                 /\ ~log[k + 1].threw
                                 /\ log[k + 1].ret = e.ret
                                 /\ log[k + 1].writes = << >>
                                 /\ log[k + 1].after = e.after

\* getC3Permission created the record at time 1 and, called again after the
\* clock was set back, returned the record of time 1 without writing
C20_Witness ==
    /\ Len(log) = 2
    /\ log[1].fn = "getC3Permission" /\ log[2].fn = "getC3Permission"
    /\ PersistedPermission(log[1].before) = Undefined
    /\ log[1].at = 1 /\ log[2].at = 0
    /\ log[2].ret = [enabled |-> TRUE, date |-> Date(1)]
    /\ log[2].writes = << >>

\* C21: without a collector credential the delivery client issues no request
\* for any payload, and it returns before it builds one: no call fetches, no
\* call throws (not even on a payload JSON.stringify rejects), and every
\* handle is undefined.
C21_NoCredentialNoRequest ==
    ~hasKey =>
        /\ \A k \in DOMAIN calls : ~calls[k].fetched /\ ~calls[k].threw
        /\ \A k \in DOMAIN events : events[k] = "undefined"

\* without a credential the delivery client was handed a payload that
\* JSON.stringify rejects, and returned
C21_Witness ==
    /\ ~hasKey
    /\ \E k \in DOMAIN calls :
          /\ ~Serializable(calls[k].payload.properties)
          /\ ~calls[k].threw /\ ~calls[k].fetched
    /\ Len(events) = Len(calls)

NewTerminals(i) ==
    {k \in (DOMAIN calls') \ (DOMAIN calls) :
        /\ calls'[k].inv = i
        /\ ~calls'[k].threw
        /\ calls'[k].payload.event[2] \in TerminalStages}

\* C23: the terminal event of stage S that a step sends for an invocation
\* carries durationMs and, of the properties a caller can supply, those of
\* startedProps overlaid with those contributed for "<prefix> S" so far:
\* a contributed property of that stage appears with its contributed value,
\* a property of startedProps not contributed for that stage keeps its
\* value, and no other property appears, whatever was contributed for the
\* other stages.
C23_TerminalPropsOfStage ==
    [][\A i \in Invs : \A k \in NewTerminals(i) :
          LET props == calls'[k].payload.properties
              contributed == AddlOf(additionalProperties'[i], calls'[k].payload.event)
              started == opts'[i].startedProps
          IN /\ calls'[k].payload.event[1] = opts'[i].eventPrefix
             /\ "durationMs" \in DOMAIN props
             /\ \A key \in UserKeys :
                   IF key \in DOMAIN contributed
                   THEN key \in DOMAIN props /\ props[key] = contributed[key]
                   ELSE IF key \in DOMAIN started
                        THEN key \in DOMAIN props /\ props[key] = started[key]
                        ELSE key \notin DOMAIN props]_vars

\* the operation contributed args for the completed stage and resolved; the
\* completed event carries the contributed args in place of the started ones
C23_Witness ==
    /\ pc["a"] = "settled" /\ op["a"].st = "fulfilled"
    /\ additionalProperties["a"] =
          SetProp(Empty, EventName(opts["a"].eventPrefix, "completed"), "args", Other)
    /\ \E k \in SentTerminals("a") :
          /\ StageOf(calls[k]) = "completed"
          /\ PropsOf(k)["args"] = Other

\* C24: with a session and a prompt that overlap, what the session's
\* operation contributed (args) is in no terminal event of the prompt, even
\* when it was contributed under the prompt's event name, and what the
\* prompt's operation contributed (answer) is in no terminal event of the
\* session.
C24_ContributionsStayWithInvocation ==
    /\ \A k \in SentTerminals("b") : PropsOf(k)["args"] = Plain
    /\ \A k \in SentTerminals("a") : "answer" \notin DOMAIN PropsOf(k)

\* while the prompt was running, the session's operation contributed args
\* under the prompt's completed event; the prompt's operation contributed
\* its answer; both completed, and the prompt's event carries the answer and
\* the args it started with
C24_Witness ==
    /\ pc["a"] = "settled" /\ pc["b"] = "settled"
    /\ EventName("c3 prompt", "completed") \in DOMAIN additionalProperties["a"]
    /\ \E k \in SentTerminals("b") :
          /\ StageOf(calls[k]) = "completed"
          /\ PropsOf(k)["args"] = Plain
          /\ "answer" \in DOMAIN PropsOf(k) /\ PropsOf(k)["answer"] = Plain
    /\ \E k \in SentTerminals("a") : StageOf(calls[k]) = "completed"

\* C25: the durationMs of every terminal event is at least 0, whatever the
\* wall clock did between the start of the invocation and the event.
C25_DurationNonNegative ==
    \A i \in Invs : \A k \in SentTerminals(i) : PropsOf(k)["durationMs"] >= 0

\* C26: an invocation settled by its operation rejecting with a value that is
\* not an Error rejects with that same value, and, when it reports, its one
\* terminal event is the errored event, whose error has neither message nor
\* stack.
C26_NonErrorRejection ==
    \A i \in Invs :
        (pc[i] = "settled" /\ race[i].st = "rejected" /\ race[i].val = OpNonError) =>
            /\ SameOutcome(result[i], Rejected(OpNonError))
            /\ Reports(i) =>
                  /\ SentStages(i) = {"errored"}
                  /\ \A k \in SentTerminals(i) :
                        PropsOf(k)["error"] = [message |-> "undefined", stack |-> "undefined"]

\* the operation rejected with a string and the errored event went out
C26_Witness ==
    /\ pc["a"] = "settled" /\ SameOutcome(op["a"], Rejected(OpNonError))
    /\ SameOutcome(result["a"], Rejected(OpNonError))
    /\ \E k \in SentTerminals("a") :
          StageOf(calls[k]) = "errored" /\ PropsOf(k)["error"].message = "undefined"

\* C27: options.promise is called once per invocation and never again, and
\* the step that calls it has recorded the start time, has sent the started
\* event when the invocation reports, and, when the call returned a promise,
\* leaves the invocation listening for both signals.
C27_ThunkCalledOnceAfterSetup ==
    [][\A i \in Invs :
          /\ pc[i] # "idle" => thunkCalls[i] = 1 /\ thunkCalls'[i] = 1
          /\ thunkCalls'[i] # thunkCalls[i] =>
                /\ pc[i] = "idle" /\ thunkCalls[i] = 0 /\ thunkCalls'[i] = 1
                /\ startTime'[i] = now
                /\ (telemetry /\ ~opts'[i].disableTelemetry) =>
                      \E k \in (DOMAIN calls') \ (DOMAIN calls) :
                          /\ calls'[k].inv = i
                          /\ calls'[k].payload.event = EventName(opts'[i].eventPrefix, "started")
                          /\ \A j \in (DOMAIN calls') \ (DOMAIN calls) : k <= j
                /\ op'[i] = Pending => \A sig \in Signals : i \in listeners'[sig]]_vars

\* the invocation was interrupted, its abandoned operation rejected later,
\* and options.promise was called once
C27_Witness ==
    /\ pc["a"] = "settled" /\ Interrupted("a")
    /\ op["a"].st = "rejected"
    /\ thunkCalls["a"] = 1

C29_ModuleExactlyOneTerminalEvent ==
    \A i \in Invs :
        (pc[i] # "idle" /\ PersistedEnabled(file) = "true") =>
            /\ Cardinality(SentTerminals(i)) <= 1
            /\ pc[i] = "settled" => Cardinality(SentTerminals(i)) = 1

\* the terminal stage that reports the outcome x of an operation
StageFor(x) ==
    IF x.st = "fulfilled" THEN "completed"
    ELSE IF InstanceOfCancelError(x.val) THEN "cancelled" ELSE "errored"

\* C30: an invocation whose operation settled before any signal, once
\* settled, has the operation's own outcome as its result and, when it
\* reports, the event of that outcome as its only terminal event, whether or
\* not a signal arrived between the operation settling and the listeners
\* being removed.
C30_FirstSettlesWins ==
    \A i \in Invs :
        (pc[i] = "settled" /\ OwnOutcome(i)) =>
            /\ SameOutcome(race[i], op[i])
            /\ SameOutcome(result[i], op[i])
            /\ Reports(i) =>
                  /\ Cardinality(SentTerminals(i)) = 1
                  /\ SentStages(i) = {StageFor(op[i])}

\* the step delivers sig: a pending cancelPromise is rejected with its CancelError
Delivers(sig) ==
    \E i \in Invs : /\ cancelPromise[i] = Pending
                    /\ cancelPromise'[i] = Rejected(CancelError(sig))

\* C31: a signal delivered while invocations await their races settles the
\* race of every one of them with the CancelError of that signal, and every
\* invocation settled through an interrupt has rejected with a CancelError
\* and, when it reports, has the cancelled event of its own prefix as its
\* only terminal event, whatever happens afterwards.
C31_SignalCancelsAll ==
    [][/\ \A sig \in Signals :
             Delivers(sig) =>
                 \A j \in Invs :
                     (pc[j] = "awaiting" /\ race[j] = Pending) =>
                         race'[j] = Rejected(CancelError(sig))
       /\ \A j \in Invs :
             (pc'[j] = "settled" /\ race'[j].st = "rejected"
                                 /\ race'[j].val.origin = "signal") =>
                 /\ SameOutcome(result'[j], race'[j])
                 /\ (telemetry /\ ~opts'[j].disableTelemetry) =>
                       LET sent == {k \in DOMAIN calls' :
                                       /\ calls'[k].inv = j /\ ~calls'[k].threw
                                       /\ calls'[k].payload.event[2] \in TerminalStages}
                       IN /\ Cardinality(sent) = 1
                          /\ \A k \in sent :
                                calls'[k].payload.event =
                                    EventName(opts'[j].eventPrefix, "cancelled")]_vars

\* one signal arrived while the session and the prompt were both in
\* progress; both settled through it, each with its own cancelled event, and
\* both abandoned operations resolved afterwards
C31_Witness ==
    /\ \A i \in Invs : /\ pc[i] = "settled" /\ Reports(i)
                       /\ race[i] = Rejected(CancelError("SIGINT"))
                       /\ op[i].st = "fulfilled"
                       /\ SentStages(i) = {"cancelled"}
    /\ Len(calls) = 4

\* C32: an invocation whose race has settled, by its operation or by a
\* signal, eventually settles itself with its listeners removed and, when it
\* reports, with a terminal event sent, while no delivery handle ever settles.
C32_EventuallySettles ==
    \A i \in Invs :
        (pc[i] = "awaiting" /\ race[i].st \in {"fulfilled", "rejected"})
            ~> /\ pc[i] = "settled"
               /\ \A sig \in Signals : i \notin listeners[sig]
               /\ Reports(i) => SentTerminals(i) # {}

\* the invocation settled through a signal and sent its terminal event while
\* the handles of its started and cancelled events are both still pending
C32_Witness ==
    /\ pc["a"] = "settled" /\ Interrupted("a") /\ Reports("a") /\ hasKey
    /\ SentTerminals("a") # {}
    /\ Len(events) = 2 /\ \A k \in DOMAIN events : events[k] = "pending"
    /\ \A sig \in Signals : listeners[sig] = {}

\* C33: an invocation with disableTelemetry set has made no call of the
\* delivery client and put no handle on the pending list; while it awaits
\* its race it listens for both signals, and once settled it listens for
\* none and has the outcome of its race as its result, a CancelError when
\* the race was settled by a signal.
C33_DisableTelemetrySendsNothing ==
    \A i \in Solo :
        (pc[i] # "idle" /\ opts[i].disableTelemetry) =>
            /\ \A k \in DOMAIN calls : calls[k].inv # i
            /\ events = << >>
            /\ pc[i] = "awaiting" => \A sig \in Signals : i \in listeners[sig]
            /\ pc[i] = "settled" =>
                  /\ \A sig \in Signals : i \notin listeners[sig]
                  /\ race[i].st \in {"fulfilled", "rejected"} =>
                        SameOutcome(result[i], race[i])
                  /\ Interrupted(i) => InstanceOfCancelError(result[i].val)
                  /\ result[i].st \in {"fulfilled", "rejected"}

\* with telemetry enabled and disableTelemetry set, an operation that
\* contributed an answer resolved and the invocation resolved with its value
C33_Witness ==
    /\ telemetry /\ hasKey
    /\ pc["a"] = "settled" /\ opts["a"].disableTelemetry
    /\ additionalProperties["a"] # Empty
    /\ race["a"].st = "fulfilled" /\ SameOutcome(result["a"], race["a"])
    /\ calls = << >>

\* C34: after a createReporter() that returned, the file holds a config with
\* a c3permission record and a deviceId, which are the ones the reporter
\* has; every key the file held before has kept its value; at most two
\* configs were written, and the second has the record of the first.
C34_CreateReporterInitialises ==
    \A k \in DOMAIN log :
        LET e == log[k]
        IN (e.fn = "createReporter" /\ ~e.threw) =>
              /\ e.after.kind = "json"
              /\ e.after.text.c3permission # Undefined
              /\ e.after.text.deviceId # Undefined
              /\ e.ret.deviceId = e.after.text.deviceId
              /\ e.ret.telemetry = Parse(e.after.text).c3permission
              /\ e.before.kind = "json" =>
                    \A key \in DOMAIN e.before.text :
                        e.before.text[key] # Undefined =>
                            e.after.text[key] = e.before.text[key]
              /\ Len(e.writes) <= 2
              /\ Len(e.writes) = 2 =>
                    /\ e.writes[2].c3permission = e.writes[1].c3permission
                    /\ e.writes[1].c3permission # Undefined
                    /\ e.writes[2].deviceId # Undefined

\* createReporter() found no file, wrote the permission record and then the
\* deviceId, and the file holds both
C34_Witness ==
    \E k \in DOMAIN log :
        /\ log[k].fn = "createReporter" /\ ~log[k].threw
        /\ log[k].before = Absent
        /\ Len(log[k].writes) = 2
        /\ log[k].after.text.c3permission # Undefined
        /\ log[k].after.text.deviceId # Undefined

\* the event names invocation i sends contributions under: its own prefix
\* with a terminal stage
OwnTerminalNames(i) == {EventName(opts[i].eventPrefix, st) : st \in TerminalStages}

\* C35: whatever an event handed to the delivery client carries under args
\* or answer is either what the invocation started with or what was
\* contributed under that event's own name, which has the invocation's
\* prefix and a terminal stage; a contribution under any other name is in
\* no event.
C35_ForeignNamesNeverSent ==
    \A k \in DOMAIN calls :
        LET i == calls[k].inv
            name == calls[k].payload.event
            props == calls[k].payload.properties
        IN i \in Invs =>
              \A key \in UserKeys :
                  (key \in DOMAIN props) =>
                      \/ /\ key \in DOMAIN opts[i].startedProps
                         /\ props[key] = opts[i].startedProps[key]
                      \/ /\ name \in OwnTerminalNames(i)
                         /\ name \in DOMAIN additionalProperties[i]
                         /\ key \in DOMAIN additionalProperties[i][name]
                         /\ props[key] = additionalProperties[i][name][key]

\* the operation contributed under a name that is not its invocation's (another
\* prefix, or the started stage); the call was accepted, the invocation sent
\* its started and its terminal event, and both carry the args it started with
C35_Witness ==
    /\ pc["a"] = "settled" /\ Reports("a") /\ thunkCalls["a"] = 1
    /\ DOMAIN additionalProperties["a"] # {}
    /\ DOMAIN additionalProperties["a"] \cap OwnTerminalNames("a") = {}
    /\ Len(calls) = 2
    /\ \A k \in DOMAIN calls : ~calls[k].threw /\ PropsOf(k)["args"] = Plain
    /\ SentTerminals("a") # {}

\* invocation i settled through an interrupt and its operation is still running
Abandoned(i) == pc[i] = "settled" /\ Interrupted(i) /\ op[i] = Pending

\* C36: the code of an abandoned operation still finds its invocation's
\* store, so its setEventProperty does not throw; a step in which it
\* contributes changes that store alone: no call of the delivery client is
\* added or changed, no handle is added, no result and no other
\* invocation's store changes.
C36_AbandonedContributionIsInert ==
    [][\A i \in Invs :
          Abandoned(i) =>
              /\ getStore(i) = i
              /\ additionalProperties'[i] # additionalProperties[i] =>
                    /\ calls' = calls
                    /\ events' = events
                    /\ result' = result
                    /\ pc' = pc
                    /\ setThrows' = setThrows
                    /\ \A j \in Invs \ {i} :
                          additionalProperties'[j] = additionalProperties[j]]_vars

\* the session was interrupted and sent its cancelled event; its abandoned
\* operation then contributed args under that event's name, which the event
\* sent does not carry, while the prompt is still in progress
C36_Witness ==
    /\ Abandoned("a") /\ Reports("a")
    /\ EventName("c3 session", "cancelled") \in DOMAIN additionalProperties["a"]
    /\ \E k \in SentTerminals("a") :
          StageOf(calls[k]) = "cancelled" /\ PropsOf(k)["args"] = Plain
    /\ Cardinality(SentTerminals("a")) = 1
    /\ pc["b"] = "awaiting" /\ additionalProperties["b"] = Empty

====
